---- MODULE Spec2Model ----
(***************************************************************************)
(* A model of back-end/app.py: the realtime control channel (the           *)
(* Socket.IO handlers join_session, toggle_recording,                      *)
(* recording_state_update, disconnect over the maps active_sessions and    *)
(* presenter_sessions and the Socket.IO rooms) and the chunk store with    *)
(* the two HTTP handlers that use it (transcribe_chunk, gemini_feedback    *)
(* over transcript_storage).                                               *)
(***************************************************************************)
EXTENDS Naturals, Integers, Sequences, FiniteSets, TLC

(***************************************************************************)
(* Bounds of the model.                                                    *)
(***************************************************************************)
\* Number of Socket.IO connections ever opened (sids are never reused).
MaxConn == 2
\* Largest number of chunks a session's list holds.
MaxChunks == 2

Sids == 1..MaxConn
SessionIds == {"s1", "s2"}
\* data.get('deviceType'): the two roles of the protocol.
DeviceTypes == {"presenter", "controller"}

VARIABLES
    \* ---- realtime control channel
    next_sid,            \* the sid the next connection gets
    connected,           \* the sids of the live connections
    active_sessions,     \* app.py:46  sid -> [sessionId, type]
    presenter_sessions,  \* app.py:50  session id -> sid
    rooms,               \* Socket.IO rooms: session id -> set of sids
    emitted,             \* what the last handled event sent: {[event, to, data]}
    last,                \* the last handled event
    rejected,            \* history: sids whose latest join_session got valid=False
    \* ---- chunk store and the HTTP handlers
    transcript_storage,  \* app.py:42  session id -> list of chunk_data
    ireq,                \* the transcribe_chunk requests in flight
    freq,                \* the gemini_feedback requests in flight
    response,            \* the HTTP response the step just taken sent, if any
    next_uid,            \* history: number of chunks appended so far
    finalized,           \* history: sessions cleared by a successful finalize
                         \*          and not written to since
    stale,               \* history: uids of the chunks a successful finalize
                         \*          has reported or cleared
    \* ---- the presentation score on its own
    score_case           \* the inputs the score was last computed for, and it

ctlvars == <<next_sid, connected, active_sessions, presenter_sessions, rooms,
             emitted, last, rejected>>
storevars == <<transcript_storage, ireq, freq, response, next_uid, finalized, stale>>
vars == <<next_sid, connected, active_sessions, presenter_sessions, rooms,
          emitted, last, rejected,
          transcript_storage, ireq, freq, response, next_uid, finalized, stale,
          score_case>>

(***************************************************************************)
(* Python dict operations.                                                 *)
(***************************************************************************)
\* d[k] = v
DictSet(d, k, v) == [x \in DOMAIN d \cup {k} |-> IF x = k THEN v ELSE d[x]]
\* del d[k] (k in d)
DictDel(d, k) == [x \in DOMAIN d \ {k} |-> d[x]]
EmptyDict == [x \in {} |-> 0]

(***************************************************************************)
(* The realtime control channel.                                           *)
(***************************************************************************)
\* An emit that goes to every live connection.
EmitToSender_ToEveryone(sid, event, data) ==
    {[event |-> event, to |-> c, data |-> data] : c \in connected}

\* emit(event, data) inside a handler: to the requesting connection only.
EmitToSender(sid, event, data) == {[event |-> event, to |-> sid, data |-> data]}

\* A broadcast that does not skip the sender.
RoomRecipients_WithSender(room, skip_sid) == rooms[room]

\* emit(..., room=session_id, skip_sid=request.sid): the members of the room
\* but the sender.
RoomRecipients(room, skip_sid) == rooms[room] \ {skip_sid}

EmitToRoom(room, skip_sid, event, data) ==
    {[event |-> event, to |-> c, data |-> data] : c \in RoomRecipients(room, skip_sid)}

\* join_room(session_id) for the requesting connection.
JoinRoom(sid, session_id) == [rooms EXCEPT ![session_id] = @ \cup {sid}]

LastEvent(event, sid, session_id) ==
    [event |-> event, sid |-> sid, sessionId |-> session_id]

\* @socketio.on('connect')
handle_connect ==
    /\ next_sid <= MaxConn
    /\ next_sid' = next_sid + 1
    /\ connected' = connected \cup {next_sid}
    /\ emitted' = {}
    /\ last' = LastEvent("connect", next_sid, "none")
    /\ UNCHANGED <<active_sessions, presenter_sessions, rooms, rejected>>
    /\ UNCHANGED storevars
    /\ UNCHANGED score_case

\* presenter_sessions after lines 684-687 of handle_join.
RegisterPresenter(sid, session_id, device_type) ==
    IF device_type = "presenter"
    THEN DictSet(presenter_sessions, session_id, sid)
    ELSE presenter_sessions

\* A verification that finds every session.
VerifyController_AlwaysValid(sessions, session_id) == TRUE

\* session_id in presenter_sessions, as handle_join (line 691) asks it after
\* the registration step.
VerifyController(sessions, session_id) == session_id \in DOMAIN sessions

\* @socketio.on('join_session')
handle_join(sid, session_id, device_type) ==
    LET registered == RegisterPresenter(sid, session_id, device_type)
        valid == VerifyController(registered, session_id)
    IN
    /\ sid \in connected
    /\ active_sessions' = DictSet(active_sessions, sid,
                                  [sessionId |-> session_id, type |-> device_type])
    /\ presenter_sessions' = registered
    /\ last' = LastEvent("join_session", sid, session_id)
    /\ IF device_type = "controller"
       THEN IF valid
            THEN /\ emitted' = EmitToSender(sid, "session_verified",
                                   [valid |-> TRUE, message |-> "Session found"])
                 /\ rooms' = JoinRoom(sid, session_id)
                 /\ rejected' = rejected \ {sid}
            ELSE /\ emitted' = EmitToSender(sid, "session_verified",
                                   [valid |-> FALSE, message |-> "Session not found"])
                 /\ rooms' = rooms
                 /\ rejected' = rejected \cup {sid}
       ELSE /\ emitted' = {}
            /\ rooms' = JoinRoom(sid, session_id)
            /\ rejected' = rejected \ {sid}
    /\ UNCHANGED <<next_sid, connected>>
    /\ UNCHANGED storevars
    /\ UNCHANGED score_case

\* @socketio.on('toggle_recording')
handle_toggle_recording(sid, session_id) ==
    /\ sid \in connected
    /\ last' = LastEvent("toggle_recording", sid, session_id)
    /\ IF session_id \notin DOMAIN presenter_sessions
       THEN emitted' = EmitToSender(sid, "error",
                           [message |-> "Session not found or presenter is offline"])
       ELSE emitted' = EmitToRoom(session_id, sid, "toggle_recording_command",
                           [action |-> "toggle"])
    /\ UNCHANGED <<next_sid, connected, active_sessions, presenter_sessions, rooms,
                   rejected>>
    /\ UNCHANGED storevars
    /\ UNCHANGED score_case

\* A payload that always says the recording is on.
StateChangedData_AlwaysOn(is_recording) == [isRecording |-> TRUE]

\* {'isRecording': is_recording} (lines 737-739)
StateChangedData(is_recording) == [isRecording |-> is_recording]

\* @socketio.on('recording_state_update')
handle_recording_state_update(sid, session_id, is_recording) ==
    /\ sid \in connected
    /\ last' = LastEvent("recording_state_update", sid, session_id)
    /\ emitted' = EmitToRoom(session_id, sid, "recording_state_changed",
                      StateChangedData(is_recording))
    /\ UNCHANGED <<next_sid, connected, active_sessions, presenter_sessions, rooms,
                   rejected>>
    /\ UNCHANGED storevars
    /\ UNCHANGED score_case

\* presenter_sessions after handle_disconnect (lines 749-759).
UnregisterPresenter(sid) ==
    IF sid \in DOMAIN active_sessions
    THEN LET session_id == active_sessions[sid].sessionId
             device_type == active_sessions[sid].type
         IN IF device_type = "presenter" /\ session_id \in DOMAIN presenter_sessions
            THEN DictDel(presenter_sessions, session_id)
            ELSE presenter_sessions
    ELSE presenter_sessions

\* A disconnect that also drops the stored chunks of the connection's session.
handle_disconnect_ClosingSession(sid) ==
    /\ sid \in connected
    /\ connected' = connected \ {sid}
    /\ active_sessions' = IF sid \in DOMAIN active_sessions
                          THEN DictDel(active_sessions, sid)
                          ELSE active_sessions
    /\ presenter_sessions' = UnregisterPresenter(sid)
    /\ rooms' = [s \in SessionIds |-> rooms[s] \ {sid}]
    /\ rejected' = rejected \ {sid}
    /\ emitted' = {}
    /\ last' = LastEvent("disconnect", sid,
                   IF sid \in DOMAIN active_sessions
                   THEN active_sessions[sid].sessionId ELSE "none")
    /\ transcript_storage' =
           IF sid \in DOMAIN active_sessions
                /\ active_sessions[sid].sessionId \in DOMAIN transcript_storage
           THEN DictDel(transcript_storage, active_sessions[sid].sessionId)
           ELSE transcript_storage
    /\ UNCHANGED <<next_sid, ireq, freq, response, next_uid, finalized, stale>>
    /\ UNCHANGED score_case

\* @socketio.on('disconnect'); Socket.IO then takes the connection out of
\* every room it is in.
handle_disconnect(sid) ==
    /\ sid \in connected
    /\ connected' = connected \ {sid}
    /\ active_sessions' = IF sid \in DOMAIN active_sessions
                          THEN DictDel(active_sessions, sid)
                          ELSE active_sessions
    /\ presenter_sessions' = UnregisterPresenter(sid)
    /\ rooms' = [s \in SessionIds |-> rooms[s] \ {sid}]
    /\ rejected' = rejected \ {sid}
    /\ emitted' = {}
    /\ last' = LastEvent("disconnect", sid,
                   IF sid \in DOMAIN active_sessions
                   THEN active_sessions[sid].sessionId ELSE "none")
    /\ UNCHANGED next_sid
    /\ UNCHANGED storevars
    /\ UNCHANGED score_case

(***************************************************************************)
(* The chunk store.  A text is the tuple of its characters.  A float of    *)
(* the program (a segment's offset) is the number of half seconds it       *)
(* counts, so 1.5 is 3 and 61.5 is 123.                                    *)
(***************************************************************************)
\* "start_time": chunk_index * 30
ChunkSeconds == 30

\* int + float of the segment arithmetic (lines 176, 178): the int as a float.
Float(n) == 2 * n

\* The characters str.strip() and str.split() take for blanks.
Whitespace == {" ", "\n"}

RECURSIVE LStrip(_)
LStrip(t) == IF t # <<>> /\ Head(t) \in Whitespace THEN LStrip(Tail(t)) ELSE t
RECURSIVE RStrip(_)
RStrip(t) == IF t # <<>> /\ t[Len(t)] \in Whitespace THEN RStrip(SubSeq(t, 1, Len(t) - 1)) ELSE t
\* str.strip()
Strip(t) == RStrip(LStrip(t))

\* whisper_model.transcribe(wav_path, ...) for the audio clips of the model:
\* a clip with one segment from 1.5 s to 3.0 s and a clip with two segments.
Transcribe(audio) ==
    CASE audio = "a1" ->
           [text |-> <<" ", "h", "i">>,
            segments |-> <<[start |-> 3, end |-> 6, text |-> <<" ", "h", "i">>]>>]
      [] OTHER ->
           [text |-> <<" ", "y", "o", " ", "u", " ">>,
            segments |-> <<[start |-> 0, end |-> 4, text |-> <<" ", "y", "o">>],
                           [start |-> 4, end |-> 9, text |-> <<" ", "u", " ">>]>>]

\* The uploads of the model: request.form['chunkIndex'] and request.files['audio'].
Uploads ==
    { [chunkIndex |-> 0, audio |-> "a2"],
      [chunkIndex |-> 1, audio |-> "a1"],
      [chunkIndex |-> 2, audio |-> "a1"] }

\* The requests transcribe_chunk turns down before it stores anything.
BadUploads == {"no audio", "empty filename", "conversion fails"}

\* chunk_data (lines 116-121); uid is history: the number of chunks appended
\* before this one.
ChunkData(chunk_index, text, segments, uid) ==
    [chunk_index |-> chunk_index,
     text |-> text,
     segments |-> segments,
     start_time |-> chunk_index * ChunkSeconds,
     uid |-> uid]

\* list.insert keeping the order of equal keys: x goes after every element
\* whose chunk_index is not larger.
RECURSIVE InsertByChunkIndex(_, _)
InsertByChunkIndex(sorted, x) ==
    IF sorted = <<>> THEN <<x>>
    ELSE IF Head(sorted).chunk_index <= x.chunk_index
         THEN <<Head(sorted)>> \o InsertByChunkIndex(Tail(sorted), x)
         ELSE <<x>> \o sorted

RECURSIVE SortFrom(_, _)
SortFrom(sorted, rest) ==
    IF rest = <<>> THEN sorted
    ELSE SortFrom(InsertByChunkIndex(sorted, Head(rest)), Tail(rest))

\* An assembly that takes the chunks in the order they arrived.
SortByChunkIndex_ArrivalOrder(chunks) == chunks

\* chunks.sort(key=lambda x: x["chunk_index"]): a stable sort.
SortByChunkIndex(chunks) == SortFrom(<<>>, chunks)

\* " ".join([chunk["text"] for chunk in chunks])
RECURSIVE JoinTexts(_)
JoinTexts(chunks) ==
    IF chunks = <<>> THEN <<>>
    ELSE IF Len(chunks) = 1 THEN chunks[1].text
    ELSE chunks[1].text \o <<" ">> \o JoinTexts(Tail(chunks))

\* A shift that forgets the end offset.
ShiftSegment_StartOnly(segment, chunk_start) ==
    [segment EXCEPT !.start = Float(chunk_start) + @]

\* segment.copy() with start and end moved by chunk_start (lines 173-178).
ShiftSegment(segment, chunk_start) ==
    [segment EXCEPT !.start = Float(chunk_start) + @,
                    !.end = Float(chunk_start) + @]

\* The loop of lines 169-179.
RECURSIVE AllSegments(_)
AllSegments(chunks) ==
    IF chunks = <<>> THEN <<>>
    ELSE [i \in 1..Len(chunks[1].segments) |->
              ShiftSegment(chunks[1].segments[i], chunks[1].start_time)]
         \o AllSegments(Tail(chunks))

\* A test that asks only whether the session has a list.
HasTranscripts_KeyOnly(session_id) == session_id \in DOMAIN transcript_storage

\* session_id in transcript_storage and transcript_storage[session_id]:
\* the negation of the test of line 158.
HasTranscripts(session_id) ==
    /\ session_id \in DOMAIN transcript_storage
    /\ transcript_storage[session_id] # <<>>

\* The speaker-tagging collaborator's answer, stripped (line 354).
SpeakerTagged(transcript) == <<"[", "P", "]", " ">> \o transcript

Uids(chunks) == {chunks[i].uid : i \in 1..Len(chunks)}

(***************************************************************************)
(* The parsing of the question analysis (lines 256-274).                   *)
(***************************************************************************)
Max(a, b) == IF a >= b THEN a ELSE b
Min(a, b) == IF a <= b THEN a ELSE b

\* str.startswith(prefix)
StartsWith(t, prefix) == Len(t) >= Len(prefix) /\ SubSeq(t, 1, Len(prefix)) = prefix

\* The place of the first sep in t from place i on, or 0.
RECURSIVE Find(_, _, _)
Find(t, sep, i) ==
    IF i > Len(t) THEN 0 ELSE IF t[i] = sep THEN i ELSE Find(t, sep, i + 1)

\* str.split(sep)
RECURSIVE Split(_, _)
Split(t, sep) ==
    LET i == Find(t, sep, 1)
    IN IF i = 0 THEN <<t>>
       ELSE <<SubSeq(t, 1, i - 1)>> \o Split(SubSeq(t, i + 1, Len(t)), sep)

\* str.split(sep, 1)
SplitOnce(t, sep) ==
    LET i == Find(t, sep, 1)
    IN IF i = 0 THEN <<t>> ELSE <<SubSeq(t, 1, i - 1), SubSeq(t, i + 1, Len(t))>>

Digits == <<"0", "1", "2", "3", "4", "5", "6", "7", "8", "9">>
IsDigit(c) == \E d \in 1..10 : Digits[d] = c
DigitValue(c) == (CHOOSE d \in 1..10 : Digits[d] = c) - 1

RECURSIVE DigitsValue(_, _)
DigitsValue(t, acc) ==
    IF t = <<>> THEN acc ELSE DigitsValue(Tail(t), 10 * acc + DigitValue(Head(t)))

\* int(s) of a str: blanks around, a sign, decimal digits; anything else
\* raises ValueError.
IntOf(t) ==
    LET s == Strip(t)
        signed == s # <<>> /\ Head(s) \in {"-", "+"}
        digits == IF signed THEN Tail(s) ELSE s
    IN IF digits # <<>> /\ \A i \in 1..Len(digits) : IsDigit(digits[i])
       THEN [raised |-> FALSE,
             value |-> IF signed /\ Head(s) = "-"
                       THEN 0 - DigitsValue(digits, 0) ELSE DigitsValue(digits, 0)]
       ELSE [raised |-> TRUE, value |-> 0]

\* 'QUESTION_COUNT:'
QUESTION_COUNT ==
    <<"Q", "U", "E", "S", "T", "I", "O", "N", "_", "C", "O", "U", "N", "T",
      ":">>
\* 'QUALITY_SCORE:'
QUALITY_SCORE ==
    <<"Q", "U", "A", "L", "I", "T", "Y", "_", "S", "C", "O", "R", "E", ":">>
\* 'INSIGHTS:'
INSIGHTS ==
    <<"I", "N", "S", "I", "G", "H", "T", "S", ":">>
\* "Analyzing questions..."
AnalyzingQuestions ==
    <<"A", "n", "a", "l", "y", "z", "i", "n", "g", " ", "q", "u", "e", "s",
      "t", "i", "o", "n", "s", ".", ".", ".">>

\* Lines 257-259; raised tells whether the loop has raised.
DefaultAnalysis ==
    [question_count |-> 0, question_quality |-> 50,
     question_insights |-> AnalyzingQuestions, raised |-> FALSE]

\* A quality score taken as it was parsed.
ClampQuality_AsParsed(question_quality) == question_quality

\* max(0, min(100, question_quality)) (line 268)
ClampQuality(question_quality) == Max(0, Min(100, question_quality))

\* The body of the loop (lines 264-270) for one line.
ParseLine(acc, line) ==
    IF StartsWith(line, QUESTION_COUNT)
    THEN LET n == IntOf(Split(line, ":")[2])
         IN IF n.raised THEN [acc EXCEPT !.raised = TRUE]
            ELSE [acc EXCEPT !.question_count = n.value]
    ELSE IF StartsWith(line, QUALITY_SCORE)
    THEN LET n == IntOf(Split(line, ":")[2])
         IN IF n.raised THEN [acc EXCEPT !.raised = TRUE]
            ELSE [acc EXCEPT !.question_quality = ClampQuality(n.value)]
    ELSE IF StartsWith(line, INSIGHTS)
    THEN [acc EXCEPT !.question_insights = Strip(SplitOnce(line, ":")[2])]
    ELSE acc

\* for line in lines: the loop ends at the first line that raises.
RECURSIVE ParseLines(_, _)
ParseLines(acc, lines) ==
    IF lines = <<>> \/ acc.raised THEN acc
    ELSE ParseLines(ParseLine(acc, Head(lines)), Tail(lines))

\* A parse whose exception leaves the try.
ParseCaught_Propagates(result) == result

\* except Exception as parse_error (lines 271-272): what the try raised is
\* logged, and the values assigned so far stay.
ParseCaught(result) == [result EXCEPT !.raised = FALSE]

\* Lines 256-272.  question_response.text is None for an answer without
\* text, and None.strip() raises inside the try.
ParseQuestionAnalysis(question_response) ==
    ParseCaught(IF ~question_response.has_text
                THEN [DefaultAnalysis EXCEPT !.raised = TRUE]
                ELSE ParseLines(DefaultAnalysis,
                                Split(Strip(question_response.text), "\n")))

(***************************************************************************)
(* The presentation score (lines 276-308).  The components are floats; the *)
(* model counts them in six-hundredths, the smallest unit in which every   *)
(* one of them is a whole number for whole-number inputs.                  *)
(***************************************************************************)
\* dict.get(key, default)
DictGet(d, k, default) == IF k \in DOMAIN d THEN d[k] ELSE default

\* The default of data.get('faceMetrics', {...}) (lines 151-156).
DefaultFaceMetrics ==
    [avgCuriosity |-> 0, avgAttention |-> 0, avgVibe |-> 0, trend |-> "stable"]

\* face_metrics (line 151); data is the JSON body of the request.
FaceMetrics(data) == DictGet(data, "faceMetrics", DefaultFaceMetrics)

\* The sum of lines 281-283.
FaceSum(face_metrics) ==
    DictGet(face_metrics, "avgCuriosity", 0)
    + DictGet(face_metrics, "avgAttention", 0)
    + DictGet(face_metrics, "avgVibe", 0)

\* face_component (lines 280-285), in six-hundredths: (sum / 3) * 0.40.
face_component(face_metrics) == 80 * FaceSum(face_metrics)

\* question_component (line 288), in six-hundredths: question_quality * 0.30.
question_component(question_quality) == 180 * question_quality

\* transcript_length_score (line 292), in twentieths: min(100, chars / 20).
transcript_length_score(chars) == Min(100 * 20, chars)

\* len(transcript.split()): the runs of characters that are not blanks.
RECURSIVE WordCount(_)
WordCount(t) ==
    IF t = <<>> THEN 0
    ELSE IF Head(t) \in Whitespace THEN WordCount(Tail(t))
    ELSE IF Len(t) > 1 /\ t[2] \notin Whitespace THEN WordCount(Tail(t))
    ELSE 1 + WordCount(Tail(t))

\* word_density_score (line 294), in halves: min(100, words / 2).
word_density_score(words_count) == Min(100 * 2, IF words_count > 0 THEN words_count ELSE 0)

\* transcript_component (line 295), in six-hundredths:
\* ((length + density) / 2) * 0.20.
transcript_component(chars, words_count) ==
    3 * transcript_length_score(chars) + 30 * word_density_score(words_count)

\* trend_score (lines 298-299)
trend_score(face_metrics) ==
    LET trend == DictGet(face_metrics, "trend", "stable")
    IN IF trend = "improving" THEN 80 ELSE IF trend = "stable" THEN 50 ELSE 30

\* trend_component (line 300), in six-hundredths: trend_score * 0.10.
trend_component(face_metrics) == 60 * trend_score(face_metrics)

\* The sum of line 303 in exact arithmetic, in six-hundredths.
ComponentSum(face_metrics, question_quality, chars, words_count) ==
    face_component(face_metrics) + question_component(question_quality)
    + transcript_component(chars, words_count) + trend_component(face_metrics)

\* int(x) of a float: the fraction is cut off, towards zero.
Truncate(six_hundredths) ==
    IF six_hundredths >= 0 THEN six_hundredths \div 600
    ELSE 0 - ((0 - six_hundredths) \div 600)

\* The sum of line 303 is a sum of doubles.  36 * 0.30 is the double
\* 10.799999999999999, and where the other components add 0.2 to it and a
\* whole number the double sum lies below the exact one, a whole number, and
\* int() gives one less.  These are all the inputs with this outcome among
\* face sums of -300..300 in steps of 20, the qualities 0, 36, 50, 70, 100,
\* transcripts of 0..20, 2000 or 2500 characters and 0..8, 200 or 250 words.
DoubleSumFallsShort(face_metrics, question_quality, chars, words_count) ==
    /\ question_quality = 36
    /\ <<chars, words_count>> \in {<<0, 4>>, <<10, 3>>, <<20, 2>>}
    /\ <<FaceSum(face_metrics), trend_score(face_metrics)>>
           \in {<<0 - 120, 80>>, <<0, 50>>, <<0, 30>>, <<60, 80>>, <<60, 50>>, <<60, 30>>}

\* A score that is not brought into 0..100.
ClampScore_Unbounded(presentation_score) == presentation_score

\* max(0, min(100, presentation_score)) (line 308)
ClampScore(presentation_score) == Max(0, Min(100, presentation_score))

\* presentation_score (lines 303-308)
PresentationScore(face_metrics, question_quality, chars, words_count) ==
    LET exact == ComponentSum(face_metrics, question_quality, chars, words_count)
        truncated == Truncate(exact)
                     - (IF DoubleSumFallsShort(face_metrics, question_quality,
                                               chars, words_count)
                        THEN 1 ELSE 0)
    IN ClampScore(truncated + 10)

(***************************************************************************)
(* The inputs of gemini_feedback: the answers of the question analysis and *)
(* the JSON bodies.                                                        *)
(***************************************************************************)
\* Lines an answer of the question analysis is made of; key and wellformed
\* are history: the key the line is written for, and whether its value is
\* one the format asks for (150 and -5 are numbers; "x" and "8/10" are not).
QuestionLines == <<
    [key |-> "QUESTION_COUNT", wellformed |-> TRUE,
     text |-> <<"Q", "U", "E", "S", "T", "I", "O", "N", "_", "C", "O", "U",
               "N", "T", ":", " ", "3">>],
    [key |-> "QUESTION_COUNT", wellformed |-> FALSE,
     text |-> <<"Q", "U", "E", "S", "T", "I", "O", "N", "_", "C", "O", "U",
               "N", "T", ":", " ", "x">>],
    [key |-> "QUALITY_SCORE", wellformed |-> TRUE,
     text |-> <<"Q", "U", "A", "L", "I", "T", "Y", "_", "S", "C", "O", "R",
               "E", ":", " ", "7", "0">>],
    [key |-> "QUALITY_SCORE", wellformed |-> TRUE,
     text |-> <<"Q", "U", "A", "L", "I", "T", "Y", "_", "S", "C", "O", "R",
               "E", ":", " ", "1", "5", "0">>],
    [key |-> "QUALITY_SCORE", wellformed |-> TRUE,
     text |-> <<"Q", "U", "A", "L", "I", "T", "Y", "_", "S", "C", "O", "R",
               "E", ":", " ", "-", "5">>],
    [key |-> "QUALITY_SCORE", wellformed |-> FALSE,
     text |-> <<"Q", "U", "A", "L", "I", "T", "Y", "_", "S", "C", "O", "R",
               "E", ":", " ", "8", "/", "1", "0">>],
    [key |-> "INSIGHTS", wellformed |-> TRUE,
     text |-> <<"I", "N", "S", "I", "G", "H", "T", "S", ":", " ", "o", "k",
               ":", " ", "g", "o">>],
    [key |-> "none", wellformed |-> FALSE,
     text |-> <<"S", "u", "r", "e", "!">>]>>

\* Largest number of lines of an answer (the answer with the three lines of
\* the format is an answer of the model as well).
MaxLines == 2

\* The answer in the format the prompt asks for.
FullAnswer == [has_text |-> TRUE, lines |-> <<1, 3, 7>>]

\* An answer is the lines it is made of; the answer without text is the one
\* whose question_response.text is None.
Answers ==
    {[has_text |-> FALSE, lines |-> <<>>], FullAnswer}
    \cup {[has_text |-> TRUE, lines |-> ls] :
             ls \in UNION {[1..n -> 1..Len(QuestionLines)] : n \in 0..MaxLines}}

\* "\n".join(lines)
RECURSIVE JoinLines(_)
JoinLines(ls) ==
    IF ls = <<>> THEN <<>>
    ELSE IF Len(ls) = 1 THEN QuestionLines[ls[1]].text
    ELSE QuestionLines[ls[1]].text \o <<"\n">> \o JoinLines(Tail(ls))

\* question_response (line 246) for an answer of the model.
QuestionResponse(answer) ==
    [has_text |-> answer.has_text, text |-> JoinLines(answer.lines)]

\* request.get_json() or {} without 'faceMetrics'.
NoFaceData == [x \in {} |-> 0]

\* The JSON bodies of the requests of the model that go through the whole
\* of gemini_feedback: no faceMetrics, all of them, and one of them.
FusionData ==
    {NoFaceData,
     [faceMetrics |-> [avgCuriosity |-> 80, avgAttention |-> 80, avgVibe |-> 80,
                       trend |-> "improving"]],
     [faceMetrics |-> [avgVibe |-> 100]]}

\* jsonify(...), status
Response(handler, status, session_id, body) ==
    [handler |-> handler, status |-> status, session_id |-> session_id, body |-> body]

\* The answer no request has got yet.
NoAnswer == [has_text |-> FALSE, lines |-> <<>>]

\* jsonify({"error": str(e)}): error names what was raised; the fields of a
\* report are there without a value.
ErrorBody(calls) ==
    [success |-> FALSE, error |-> "error", transcript |-> <<>>,
     taggedTranscript |-> <<>>, segments |-> <<>>,
     presentationScore |-> 0, questionCount |-> 0, questionQuality |-> 0,
     questionInsights |-> <<>>, uids |-> {}, calls |-> calls, answer |-> NoAnswer]

\* The body of lines 364-374 without the text of the critique; uids, calls
\* and answer are history: the chunks the report was assembled from, the
\* number of external analysis calls the request made, and the answer of
\* the question analysis it parsed.
ReportBody(r) ==
    [success |-> TRUE, error |-> "", transcript |-> r.transcript,
     taggedTranscript |-> r.tagged, segments |-> r.all_segments,
     presentationScore |-> r.presentation_score,
     questionCount |-> r.analysis.question_count,
     questionQuality |-> r.analysis.question_quality,
     questionInsights |-> r.analysis.question_insights,
     uids |-> r.uids, calls |-> r.calls, answer |-> r.answer]

\* The slots of the HTTP requests in flight.
IngestSlots == {1}
FeedbackSlots == {1, 2}

\* A new request takes the lowest free slot.
FreeSlot(slots, used, r) == r \in slots \ used /\ \A q \in slots \ used : r <= q

\* No response: the step just taken answered no request.
NoResponse == Response("none", 0, "none", ErrorBody(0))

\* transcribe_chunk, lines 76-98: a request that is turned down.
transcribe_chunk_rejected(session_id, bad) ==
    /\ response' = Response("transcribe_chunk",
                            IF bad = "conversion fails" THEN 500 ELSE 400,
                            session_id, ErrorBody(0))
    /\ UNCHANGED <<transcript_storage, ireq, freq, next_uid, finalized, stale>>
    /\ UNCHANGED ctlvars
    /\ UNCHANGED score_case

\* transcribe_chunk, lines 76-112: validate, convert, transcribe, and test
\* whether the session has a list.
transcribe_chunk_begin(r, session_id, upload) ==
    /\ r \notin DOMAIN ireq
    /\ next_uid + Cardinality(DOMAIN ireq) < MaxChunks
    /\ LET result == Transcribe(upload.audio)
       IN ireq' = DictSet(ireq, r,
                     [pc |-> IF session_id \notin DOMAIN transcript_storage
                             THEN "create" ELSE "append",
                      session_id |-> session_id,
                      chunk_index |-> upload.chunkIndex,
                      text |-> Strip(result.text),
                      segments |-> result.segments])
    /\ response' = NoResponse
    /\ UNCHANGED <<transcript_storage, freq, next_uid, finalized, stale>>
    /\ UNCHANGED ctlvars
    /\ UNCHANGED score_case

\* request.form.get('sessionId', 'default'): the session of a request
\* that names none.
DefaultSessionId == "default"

\* convert_to_wav(file_path, wav_path): False for the upload that is no audio.
convert_to_wav(audio) == audio # "noise"

\* The transcribe_chunk requests of the model: has_audio is 'audio' in
\* request.files, filename and audio are the name and the content of the
\* uploaded file, form is request.form.  A request that names a session
\* names s1.
IngestForms ==
    { [sessionId |-> "s1", chunkIndex |-> 0],
      [sessionId |-> "s1", chunkIndex |-> 1],
      [sessionId |-> "s1"],
      [chunkIndex |-> 1] }
IngestRequests ==
    [has_audio : BOOLEAN, filename : {"", "c.webm"}, audio : {"a1", "noise"},
     form : IngestForms]

\* transcribe_chunk, lines 76-112, for a request as it arrives: the tests of
\* lines 79, 86 and 97, then the transcription.
transcribe_chunk(r, request) ==
    LET chunk_index == DictGet(request.form, "chunkIndex", 0)
        session_id == DictGet(request.form, "sessionId", DefaultSessionId)
    IN IF ~request.has_audio
       THEN transcribe_chunk_rejected(session_id, "no audio")
       ELSE IF request.filename = ""
       THEN transcribe_chunk_rejected(session_id, "empty filename")
       ELSE IF ~convert_to_wav(request.audio)
       THEN transcribe_chunk_rejected(session_id, "conversion fails")
       ELSE transcribe_chunk_begin(r, session_id,
                                   [chunkIndex |-> chunk_index, audio |-> request.audio])

\* transcribe_chunk, line 113: transcript_storage[session_id] = []
transcribe_chunk_create(r) ==
    /\ r \in DOMAIN ireq
    /\ ireq[r].pc = "create"
    /\ transcript_storage' = DictSet(transcript_storage, ireq[r].session_id, <<>>)
    /\ ireq' = [ireq EXCEPT ![r].pc = "append"]
    /\ finalized' = finalized \ {ireq[r].session_id}
    /\ response' = NoResponse
    /\ UNCHANGED <<freq, next_uid, stale>>
    /\ UNCHANGED ctlvars
    /\ UNCHANGED score_case

\* The list of the session after line 122.
AppendChunk(chunks, chunk_data) == Append(chunks, chunk_data)

\* transcribe_chunk, lines 116-141: append chunk_data and answer; a session
\* whose list is gone by now raises KeyError, which line 139 turns into a 500.
transcribe_chunk_append(r) ==
    LET session_id == ireq[r].session_id
        chunk_data == ChunkData(ireq[r].chunk_index, ireq[r].text,
                                ireq[r].segments, next_uid)
    IN
    /\ r \in DOMAIN ireq
    /\ ireq[r].pc = "append"
    /\ ireq' = DictDel(ireq, r)
    /\ IF session_id \in DOMAIN transcript_storage
       THEN /\ transcript_storage' =
                  DictSet(transcript_storage, session_id,
                          AppendChunk(transcript_storage[session_id], chunk_data))
            /\ next_uid' = next_uid + 1
            /\ finalized' = finalized \ {session_id}
            /\ response' = Response("transcribe_chunk", 200, session_id,
                               [ErrorBody(0) EXCEPT !.success = TRUE,
                                                    !.error = "",
                                                    !.transcript = ireq[r].text,
                                                    !.uids = {next_uid}])
       ELSE /\ response' = Response("transcribe_chunk", 500, session_id, ErrorBody(0))
            /\ UNCHANGED <<transcript_storage, next_uid, finalized>>
    /\ UNCHANGED <<freq, stale>>
    /\ UNCHANGED ctlvars
    /\ UNCHANGED score_case

\* gemini_feedback, lines 146-179: the test of line 158, then the sort in
\* place and the assembly of the transcript and the segments.
gemini_feedback_begin(r, session_id) ==
    /\ FreeSlot(FeedbackSlots, DOMAIN freq, r)
    /\ IF ~HasTranscripts(session_id)
       THEN /\ response' = Response("gemini_feedback", 400, session_id, ErrorBody(0))
            /\ UNCHANGED <<transcript_storage, freq>>
       ELSE LET chunks == SortByChunkIndex(transcript_storage[session_id])
            IN /\ transcript_storage' = DictSet(transcript_storage, session_id, chunks)
               /\ freq' = DictSet(freq, r,
                             [pc |-> "critique",
                              session_id |-> session_id,
                              transcript |-> JoinTexts(chunks),
                              all_segments |-> AllSegments(chunks),
                              tagged |-> <<>>,
                              analysis |-> DefaultAnalysis,
                              presentation_score |-> 0,
                              answer |-> NoAnswer,
                              uids |-> Uids(chunks),
                              calls |-> 0])
               /\ response' = NoResponse
    /\ UNCHANGED <<ireq, next_uid, finalized, stale>>
    /\ UNCHANGED ctlvars
    /\ UNCHANGED score_case

\* gemini_feedback, lines 210-222: the qualitative critique call.
gemini_feedback_critique(r, ok) ==
    /\ r \in DOMAIN freq
    /\ freq[r].pc = "critique"
    /\ IF ~ok
       THEN /\ freq' = DictDel(freq, r)
            /\ response' = Response("gemini_feedback", 500, freq[r].session_id,
                                    ErrorBody(freq[r].calls + 1))
       ELSE /\ freq' = [freq EXCEPT ![r].pc = "question", ![r].calls = @ + 1]
            /\ response' = NoResponse
    /\ UNCHANGED <<transcript_storage, ireq, next_uid, finalized, stale>>
    /\ UNCHANGED ctlvars
    /\ UNCHANGED score_case

\* gemini_feedback, lines 246-314: the question/engagement scoring call,
\* the parsing of its answer and the presentation score.  data is the JSON
\* body of the request (line 147), whose faceMetrics are used here; what
\* leaves the try of the parsing would reach line 376.
gemini_feedback_question(r, ok, data, answer) ==
    /\ r \in DOMAIN freq
    /\ freq[r].pc = "question"
    /\ IF ~ok
       THEN /\ freq' = DictDel(freq, r)
            /\ response' = Response("gemini_feedback", 500, freq[r].session_id,
                                    ErrorBody(freq[r].calls + 1))
       ELSE \E parsed \in {ParseQuestionAnalysis(QuestionResponse(answer))} :
            IF parsed.raised
            THEN /\ freq' = DictDel(freq, r)
                 /\ response' = Response("gemini_feedback", 500, freq[r].session_id,
                                         [ErrorBody(freq[r].calls + 1) EXCEPT
                                              !.error = "parse", !.answer = answer])
            ELSE /\ freq' = [freq EXCEPT
                                ![r].pc = "speaker",
                                ![r].calls = @ + 1,
                                ![r].analysis = parsed,
                                ![r].presentation_score =
                                    PresentationScore(FaceMetrics(data),
                                                      parsed.question_quality,
                                                      Len(freq[r].transcript),
                                                      WordCount(freq[r].transcript)),
                                ![r].answer = answer]
                 /\ response' = NoResponse
    /\ UNCHANGED <<transcript_storage, ireq, next_uid, finalized, stale>>
    /\ UNCHANGED ctlvars
    /\ UNCHANGED score_case

\* transcript_storage after line 361 (session_id is a key of it).
ClearStorage(session_id) == DictDel(transcript_storage, session_id)

\* gemini_feedback, lines 343-378: the speaker-tagging call in its try, then
\* del transcript_storage[session_id] and the report; a session whose list
\* is gone by now raises KeyError, which line 376 turns into a 500.
gemini_feedback_speaker(r, ok) ==
    LET session_id == freq[r].session_id
        done == [freq[r] EXCEPT !.tagged = IF ok THEN SpeakerTagged(freq[r].transcript)
                                           ELSE freq[r].transcript,
                                !.calls = @ + 1]
    IN
    /\ r \in DOMAIN freq
    /\ freq[r].pc = "speaker"
    /\ freq' = DictDel(freq, r)
    /\ IF session_id \in DOMAIN transcript_storage
       THEN /\ transcript_storage' = ClearStorage(session_id)
            /\ finalized' = finalized \cup {session_id}
            /\ stale' = stale \cup done.uids \cup Uids(transcript_storage[session_id])
            /\ response' = Response("gemini_feedback", 200, session_id, ReportBody(done))
       ELSE /\ response' = Response("gemini_feedback", 500, session_id,
                                    ErrorBody(done.calls))
            /\ UNCHANGED <<transcript_storage, finalized, stale>>
    /\ UNCHANGED <<ireq, next_uid>>
    /\ UNCHANGED ctlvars
    /\ UNCHANGED score_case

\* The inputs of the presentation score on its own: the values of
\* avgCuriosity, avgAttention and avgVibe (a client may send any number),
FaceValues == {0 - 100, 0, 80, 100}
\* of trend,
Trends == {"improving", "stable", "declining"}
\* of question_quality (line 268 leaves it in 0..100),
QualityValues == {0, 36, 50, 70, 100}
\* of len(transcript) and of len(transcript.split()).
CharCounts == {0, 20, 2000, 2500}
WordCounts == {0, 2, 200, 250}

FaceKeys == {"avgCuriosity", "avgAttention", "avgVibe", "trend"}

\* The faceMetrics object with the keys of present.
FaceDict(present, avgCuriosity, avgAttention, avgVibe, trend) ==
    [k \in present |->
        CASE k = "avgCuriosity" -> avgCuriosity
          [] k = "avgAttention" -> avgAttention
          [] k = "avgVibe" -> avgVibe
          [] OTHER -> trend]

NoScoreCase ==
    [computed |-> FALSE, data |-> NoFaceData, question_quality |-> 50,
     chars |-> 0, words_count |-> 0, presentation_score |-> 0]

\* Lines 276-308 for a request with the JSON body data, a parsed
\* question_quality and a transcript of chars characters in words_count words.
ComputePresentationScore(data, question_quality, chars, words_count) ==
    /\ score_case' =
           [computed |-> TRUE, data |-> data, question_quality |-> question_quality,
            chars |-> chars, words_count |-> words_count,
            presentation_score |->
                PresentationScore(FaceMetrics(data), question_quality,
                                  chars, words_count)]
    /\ UNCHANGED <<next_sid, connected, active_sessions, presenter_sessions, rooms,
                   emitted, last, rejected>>
    /\ UNCHANGED <<transcript_storage, ireq, freq, response, next_uid, finalized,
                   stale>>

Init ==
    /\ next_sid = 1
    /\ connected = {}
    /\ active_sessions = EmptyDict
    /\ presenter_sessions = EmptyDict
    /\ rooms = [s \in SessionIds |-> {}]
    /\ emitted = {}
    /\ last = LastEvent("none", 0, "none")
    /\ rejected = {}
    /\ transcript_storage = EmptyDict
    /\ ireq = EmptyDict
    /\ freq = EmptyDict
    /\ response = NoResponse
    /\ next_uid = 0
    /\ finalized = {}
    /\ stale = {}
    /\ score_case = NoScoreCase

JoinSession == \E sid \in Sids, s \in SessionIds, t \in DeviceTypes : handle_join(sid, s, t)
ToggleRecording == \E sid \in Sids, s \in SessionIds : handle_toggle_recording(sid, s)
RecordingStateUpdate ==
    \E sid \in Sids, s \in SessionIds, b \in BOOLEAN :
        handle_recording_state_update(sid, s, b)
Disconnect == \E sid \in Sids : handle_disconnect(sid)

\* The realtime control channel: every handler runs to its end before the
\* next event is handled.
Next ==
    \/ handle_connect
    \/ JoinSession
    \/ ToggleRecording
    \/ RecordingStateUpdate
    \/ Disconnect

Spec == Init /\ [][Next]_vars

TranscribeRejected ==
    \E s \in SessionIds, bad \in BadUploads : transcribe_chunk_rejected(s, bad)
TranscribeBegin ==
    \E r \in IngestSlots, s \in SessionIds, u \in Uploads :
        FreeSlot(IngestSlots, DOMAIN ireq, r) /\ transcribe_chunk_begin(r, s, u)
TranscribeCreate == \E r \in IngestSlots : transcribe_chunk_create(r)
TranscribeAppend == \E r \in IngestSlots : transcribe_chunk_append(r)
FeedbackBegin == \E r \in FeedbackSlots, s \in SessionIds : gemini_feedback_begin(r, s)
FeedbackCritique == \E r \in FeedbackSlots, ok \in BOOLEAN : gemini_feedback_critique(r, ok)
\* The requests of the chunk store's interleavings carry no faceMetrics and
\* get the answer in the format.
FeedbackQuestion ==
    \E r \in FeedbackSlots, ok \in BOOLEAN :
        gemini_feedback_question(r, ok, NoFaceData, FullAnswer)
FeedbackSpeaker == \E r \in FeedbackSlots, ok \in BOOLEAN : gemini_feedback_speaker(r, ok)

\* The HTTP handlers on the threaded server: a request runs up to its next
\* external call or its next access to transcript_storage, and requests in
\* flight interleave between these steps.
NextStore ==
    \/ TranscribeBegin
    \/ TranscribeCreate
    \/ TranscribeAppend
    \/ FeedbackBegin
    \/ FeedbackCritique
    \/ FeedbackQuestion
    \/ FeedbackSpeaker

SpecStore == Init /\ [][NextStore]_vars

\* The fusion pipeline, one request at a time: chunks of one session are
\* stored (the same clip under the indexes 0 and 1), and gemini_feedback
\* goes through its stages with every JSON body and every answer of the
\* model.
FusionUploads == {[chunkIndex |-> 0, audio |-> "a1"], [chunkIndex |-> 1, audio |-> "a1"]}
FusionTranscribeBegin ==
    /\ freq = EmptyDict
    /\ \E u \in FusionUploads : transcribe_chunk_begin(1, "s1", u)
FusionFeedbackBegin ==
    /\ freq = EmptyDict
    /\ ireq = EmptyDict
    /\ gemini_feedback_begin(1, "s1")
FusionFeedbackQuestion ==
    \E ok \in BOOLEAN, data \in FusionData, answer \in Answers :
        gemini_feedback_question(1, ok, data, answer)

NextFusion ==
    \/ FusionTranscribeBegin
    \/ TranscribeCreate
    \/ TranscribeAppend
    \/ FusionFeedbackBegin
    \/ FeedbackCritique
    \/ FusionFeedbackQuestion
    \/ FeedbackSpeaker

SpecFusion == Init /\ [][NextFusion]_vars

\* Uploads on their own: two transcribe_chunk requests in flight and no
\* gemini_feedback.
RaceSlots == {1, 2}
RaceTranscribeBegin ==
    \E r \in RaceSlots, s \in SessionIds, u \in Uploads :
        FreeSlot(RaceSlots, DOMAIN ireq, r) /\ transcribe_chunk_begin(r, s, u)
RaceTranscribeCreate == \E r \in RaceSlots : transcribe_chunk_create(r)
RaceTranscribeAppend == \E r \in RaceSlots : transcribe_chunk_append(r)

NextIngest ==
    \/ RaceTranscribeBegin
    \/ RaceTranscribeCreate
    \/ RaceTranscribeAppend

SpecIngest == Init /\ [][NextIngest]_vars

\* Uploads as they arrive, one at a time: every transcribe_chunk request of
\* the model, valid or not.
TranscribeChunk == \E r \in IngestSlots, request \in IngestRequests : transcribe_chunk(r, request)

NextRequests ==
    \/ TranscribeChunk
    \/ TranscribeCreate
    \/ TranscribeAppend

SpecRequests == Init /\ [][NextRequests]_vars

\* The two halves side by side for one session: the realtime events of the
\* connections and, between them, the steps of one HTTP request at a time
\* (an upload of the first chunk's clip, or a finalize).
SystemSession == "s1"
SystemJoin == \E sid \in Sids, t \in DeviceTypes : handle_join(sid, SystemSession, t)
SystemToggle == \E sid \in Sids : handle_toggle_recording(sid, SystemSession)
SystemStateUpdate ==
    \E sid \in Sids, b \in BOOLEAN : handle_recording_state_update(sid, SystemSession, b)
SystemUpload == [chunkIndex |-> 0, audio |-> "a1"]
SystemTranscribeBegin ==
    /\ freq = EmptyDict
    /\ transcribe_chunk_begin(1, SystemSession, SystemUpload)
SystemFeedbackBegin ==
    /\ ireq = EmptyDict
    /\ gemini_feedback_begin(1, SystemSession)

NextSystem ==
    \/ handle_connect
    \/ SystemJoin
    \/ SystemToggle
    \/ SystemStateUpdate
    \/ Disconnect
    \/ SystemTranscribeBegin
    \/ TranscribeCreate
    \/ TranscribeAppend
    \/ SystemFeedbackBegin
    \/ FeedbackCritique
    \/ FeedbackQuestion
    \/ FeedbackSpeaker

SpecSystem == Init /\ [][NextSystem]_vars

\* The presentation score on its own, computed once for an input of the
\* model.
ScoreCase ==
    /\ ~score_case.computed
    /\ \E withFace \in BOOLEAN, present \in SUBSET FaceKeys,
          avgCuriosity \in FaceValues, avgAttention \in FaceValues,
          avgVibe \in FaceValues, trend \in Trends,
          question_quality \in QualityValues, chars \in CharCounts,
          words_count \in WordCounts :
           ComputePresentationScore(
               IF withFace
               THEN [faceMetrics |-> FaceDict(present, avgCuriosity, avgAttention,
                                              avgVibe, trend)]
               ELSE NoFaceData,
               question_quality, chars, words_count)

NextScore == ScoreCase

SpecScore == Init /\ [][NextScore]_vars

(***************************************************************************)
(* The claims about the realtime control channel, under Spec.              *)
(***************************************************************************)
ToggleCommands == {e \in emitted : e.event = "toggle_recording_command"}
StateChanges == {e \in emitted : e.event = "recording_state_changed"}

\* The presenter connections of session s that a later presenter join on s
\* has superseded: they joined s as presenter, and s is bound to another
\* connection that joined s as presenter.
Superseded(s) ==
    {a \in DOMAIN active_sessions :
        /\ active_sessions[a] = [sessionId |-> s, type |-> "presenter"]
        /\ s \in DOMAIN presenter_sessions
        /\ presenter_sessions[s] # a
        /\ presenter_sessions[s] \in DOMAIN active_sessions
        /\ active_sessions[presenter_sessions[s]] = [sessionId |-> s, type |-> "presenter"]}

\* C1: after presenter A joins s and presenter B then joins s, the binding
\* of s names B (the connection whose presenter join was handled last), and
\* a toggle_recording_command broadcast for s goes to members of room s only
\* and never to the superseded connection A.
C1_SupersededPresenterGetsNoCommand ==
    \A s \in SessionIds :
        /\ (/\ last.event = "join_session"
            /\ last.sessionId = s
            /\ active_sessions[last.sid].type = "presenter")
           => (s \in DOMAIN presenter_sessions /\ presenter_sessions[s] = last.sid)
        /\ (last.event = "toggle_recording" /\ last.sessionId = s)
           => \A e \in ToggleCommands :
                  e.to \in rooms[s] /\ e.to \notin Superseded(s)

\* C2: disconnect of c removes the binding of c's session if and only if c
\* is the connection bound as that session's presenter; every other binding
\* stays as it is.
C2_DisconnectRemovesOnlyOwnBinding ==
    [][\A c \in Sids :
          handle_disconnect(c) =>
              \A s \in DOMAIN presenter_sessions :
                  IF /\ c \in DOMAIN active_sessions
                     /\ active_sessions[c].sessionId = s
                     /\ presenter_sessions[s] = c
                  THEN s \notin DOMAIN presenter_sessions'
                  ELSE /\ s \in DOMAIN presenter_sessions'
                       /\ presenter_sessions'[s] = presenter_sessions[s]]_vars

\* C3: a controller c whose latest join_session (for s) was answered
\* valid=False: a toggle_recording from c for s delivers no
\* toggle_recording_command to anyone, and no broadcast for s is delivered
\* to c.
C3_RejectedControllerIsOutside ==
    \A c \in rejected :
        (/\ last.event \in {"toggle_recording", "recording_state_update"}
         /\ last.sessionId = active_sessions[c].sessionId)
        => /\ (last.sid = c => ToggleCommands = {})
           /\ \A e \in ToggleCommands \cup StateChanges : e.to # c

\* C4: a controller join_session(s) is answered with exactly one
\* session_verified, to the requesting connection, with valid true iff s had
\* a presenter binding; the controller is added to room s iff valid; the
\* bindings are left as they were.
C4_ControllerJoinVerified ==
    [][\A c \in Sids, s \in SessionIds :
          handle_join(c, s, "controller") =>
              LET v == s \in DOMAIN presenter_sessions
              IN /\ Cardinality(emitted') = 1
                 /\ \A e \in emitted' :
                        /\ e.event = "session_verified"
                        /\ e.to = c
                        /\ e.data.valid = v
                 /\ rooms' = IF v THEN [rooms EXCEPT ![s] = @ \cup {c}] ELSE rooms
                 /\ presenter_sessions' = presenter_sessions]_vars

\* C4, its case: a controller has just been admitted to the room of a
\* session another connection presents.
C4_Witness ==
    /\ last.event = "join_session"
    /\ active_sessions[last.sid].type = "controller"
    /\ last.sessionId \in DOMAIN presenter_sessions
    /\ presenter_sessions[last.sessionId] # last.sid
    /\ last.sid \in rooms[last.sessionId]
    /\ \E e \in emitted : e.to = last.sid /\ e.data.valid

(***************************************************************************)
(* The claims about the chunk store and gemini_feedback, under SpecStore.  *)
(***************************************************************************)
Stored(s) == IF s \in DOMAIN transcript_storage THEN transcript_storage[s] ELSE <<>>

\* C5: a session's stored collection never holds two chunks with the same
\* chunk_index (an index uploaded again does not add a second chunk).
C5_OneChunkPerIndex ==
    \A s \in DOMAIN transcript_storage :
        \A i, j \in 1..Len(transcript_storage[s]) :
            i # j => transcript_storage[s][i].chunk_index
                     # transcript_storage[s][j].chunk_index

\* The chunk indexes of the list are 0..N-1, each once.
IndexesAreRange(chunks) ==
    /\ \A i, j \in 1..Len(chunks) : i # j => chunks[i].chunk_index # chunks[j].chunk_index
    /\ {chunks[i].chunk_index : i \in 1..Len(chunks)} = 0..(Len(chunks) - 1)

ChunkWithIndex(chunks, k) ==
    CHOOSE c \in {chunks[i] : i \in 1..Len(chunks)} : c.chunk_index = k

\* The texts of the chunks with index k..n-1, in index order, one space
\* between two texts.
RECURSIVE TextsInIndexOrder(_, _, _)
TextsInIndexOrder(chunks, k, n) ==
    IF k >= n THEN <<>>
    ELSE IF k = n - 1 THEN ChunkWithIndex(chunks, k).text
    ELSE ChunkWithIndex(chunks, k).text \o <<" ">> \o TextsInIndexOrder(chunks, k + 1, n)

\* The number of segments of the chunks with an index below k.
RECURSIVE SegmentsBefore(_, _)
SegmentsBefore(chunks, k) ==
    IF k = 0 THEN 0
    ELSE SegmentsBefore(chunks, k - 1) + Len(ChunkWithIndex(chunks, k - 1).segments)

SortedByStart(segments) ==
    \A i, j \in 1..Len(segments) : i < j => segments[i].start <= segments[j].start

\* C6: whatever order the chunks 0..N-1 of a session arrived in, the
\* assembly has the texts joined by one space in index order, and the
\* segments chunk by chunk in index order and in their order within the
\* chunk, so sorted by absolute start offset.
C6_AssemblyInIndexOrder ==
    [][\A r \in FeedbackSlots, s \in SessionIds :
          (/\ gemini_feedback_begin(r, s)
           /\ HasTranscripts(s)
           /\ IndexesAreRange(transcript_storage[s]))
          => LET chunks == transcript_storage[s]
                 n == Len(chunks)
                 report == freq'[r]
             IN /\ report.transcript = TextsInIndexOrder(chunks, 0, n)
                /\ Len(report.all_segments) = SegmentsBefore(chunks, n)
                /\ \A k \in 0..(n - 1) :
                       \A j \in 1..Len(ChunkWithIndex(chunks, k).segments) :
                           report.all_segments[SegmentsBefore(chunks, k) + j].text
                           = ChunkWithIndex(chunks, k).segments[j].text
                /\ SortedByStart(report.all_segments)]_vars

\* C6, its case: the chunks 0 and 1 of a session arrived as 1, then 0, and a
\* request has assembled them.
C6_Witness ==
    \E r \in DOMAIN freq :
        LET chunks == Stored(freq[r].session_id)
        IN /\ freq[r].pc = "critique"
           /\ Len(chunks) = 2
           /\ IndexesAreRange(chunks)
           /\ chunks[1].uid > chunks[2].uid
           /\ Uids(chunks) = freq[r].uids
           /\ freq[r].transcript = <<"y", "o", " ", "u", " ", "h", "i">>

\* The segments of an assembly, in order, each with the chunk it came from.
RECURSIVE SegmentOrigins(_)
SegmentOrigins(chunks) ==
    IF chunks = <<>> THEN <<>>
    ELSE [j \in 1..Len(chunks[1].segments) |->
              [chunk |-> chunks[1], segment |-> chunks[1].segments[j]]]
         \o SegmentOrigins(Tail(chunks))

\* C7: every assembled segment has start = chunk_index * 30 + start and
\* end = chunk_index * 30 + end of the segment it was copied from (offsets
\* count half seconds), and the assembly leaves the stored chunks, their
\* segments and offsets included, as they were: it only reorders the list.
C7_AbsoluteOffsets ==
    [][\A r \in FeedbackSlots, s \in SessionIds :
          (gemini_feedback_begin(r, s) /\ HasTranscripts(s))
          => LET before == transcript_storage[s]
                 after == transcript_storage'[s]
                 origins == SegmentOrigins(after)
                 assembled == freq'[r].all_segments
             IN /\ Len(assembled) = Len(origins)
                /\ \A k \in 1..Len(origins) :
                       /\ assembled[k].start =
                              2 * (origins[k].chunk.chunk_index * 30) + origins[k].segment.start
                       /\ assembled[k].end =
                              2 * (origins[k].chunk.chunk_index * 30) + origins[k].segment.end
                /\ Len(after) = Len(before)
                /\ {after[i] : i \in 1..Len(after)} = {before[i] : i \in 1..Len(before)}
                /\ \A t \in DOMAIN transcript_storage \ {s} :
                       transcript_storage'[t] = transcript_storage[t]]_vars

\* C7, its case: chunk 2 with a segment from 1.5 s to 3.0 s is assembled to
\* a segment from 61.5 s to 63.0 s, and the stored segment still reads 1.5 s
\* to 3.0 s.
C7_Witness ==
    \E r \in DOMAIN freq :
        /\ freq[r].pc = "critique"
        /\ \E k \in 1..Len(freq[r].all_segments) :
               /\ freq[r].all_segments[k].start = 123
               /\ freq[r].all_segments[k].end = 126
        /\ \E i \in 1..Len(Stored(freq[r].session_id)) :
               LET c == Stored(freq[r].session_id)[i]
               IN /\ c.chunk_index = 2
                  /\ c.segments = <<[start |-> 3, end |-> 6, text |-> <<" ", "h", "i">>]>>

\* C8: gemini_feedback for a session with no stored chunk answers 400 with
\* no report, makes no external analysis call (no request is left in flight
\* to make one), and leaves the chunk store and the session registry as
\* they were.
C8_EmptySessionRejected ==
    [][\A r \in FeedbackSlots, s \in SessionIds :
          (/\ gemini_feedback_begin(r, s)
           /\ (s \notin DOMAIN transcript_storage \/ Len(transcript_storage[s]) = 0))
          => /\ response'.handler = "gemini_feedback"
             /\ response'.session_id = s
             /\ response'.status = 400
             /\ response'.body = ErrorBody(0)
             /\ freq' = freq
             /\ transcript_storage' = transcript_storage
             /\ active_sessions' = active_sessions
             /\ presenter_sessions' = presenter_sessions
             /\ rooms' = rooms]_vars

\* C8, its case: a request for a session that a finalize has cleared is
\* answered 400 while another session holds chunks.
C8_Witness ==
    /\ response.handler = "gemini_feedback"
    /\ response.status = 400
    /\ response.session_id \in finalized
    /\ \E t \in DOMAIN transcript_storage :
           t # response.session_id /\ transcript_storage[t] # <<>>

\* C9: when gemini_feedback succeeds for s, s has no chunk collection; a
\* request for s made then, with no chunk stored for s in between, is
\* answered 400; and no report holds a chunk that was stored for its session
\* before an earlier successful gemini_feedback of that session.
C9_ClearedAfterFinalize ==
    [][/\ \A r \in FeedbackSlots, ok \in BOOLEAN :
              (gemini_feedback_speaker(r, ok) /\ response'.status = 200)
              => /\ response'.session_id \notin DOMAIN transcript_storage'
                 /\ response'.body.uids \cap stale = {}
       /\ \A r \in FeedbackSlots, s \in finalized :
              gemini_feedback_begin(r, s) => response'.status = 400]_vars

\* C10: the failure of one external analysis call does not fail
\* gemini_feedback: after a failed critique call or a failed scoring call
\* the request goes on to its next stage, and after a failed speaker-tagging
\* call it answers 200 for a session that is still stored.
C10_AnalysisFailureDegrades ==
    [][\A r \in FeedbackSlots :
          /\ gemini_feedback_critique(r, FALSE)
             => (r \in DOMAIN freq' /\ freq'[r].pc = "question" /\ response'.status # 500)
          /\ gemini_feedback_question(r, FALSE, NoFaceData, FullAnswer)
             => (r \in DOMAIN freq' /\ freq'[r].pc = "speaker" /\ response'.status # 500)
          /\ (gemini_feedback_speaker(r, FALSE)
              /\ freq[r].session_id \in DOMAIN transcript_storage)
             => (response'.status = 200
                 /\ response'.body.taggedTranscript = response'.body.transcript)]_vars

(***************************************************************************)
(* The claims about the question analysis and the presentation score,      *)
(* under SpecFusion and SpecScore.                                         *)
(***************************************************************************)
\* The answer has a line for the key whose value is one the format asks for.
HasWellFormedLine(answer, key) ==
    /\ answer.has_text
    /\ \E i \in 1..Len(answer.lines) :
           QuestionLines[answer.lines[i]].key = key
           /\ QuestionLines[answer.lines[i]].wellformed

\* What the request made of the answer: a quality in 0..100, and the
\* default of every field the answer has no well-formed line for.
DegradesToDefaults(answer, question_count, question_quality, question_insights) ==
    /\ question_quality \in 0..100
    /\ ~HasWellFormedLine(answer, "QUESTION_COUNT") => question_count = 0
    /\ ~HasWellFormedLine(answer, "QUALITY_SCORE") => question_quality = 50
    /\ ~HasWellFormedLine(answer, "INSIGHTS")
           => question_insights = AnalyzingQuestions

FaceInput(data, key) ==
    IF "faceMetrics" \in DOMAIN data /\ key \in DOMAIN data.faceMetrics
    THEN data.faceMetrics[key] ELSE 0

\* trendScore: 80, 50, 30 for improving, stable, anything else; stable when
\* trend or faceMetrics is absent.
TrendInput(data) ==
    IF "faceMetrics" \in DOMAIN data /\ "trend" \in DOMAIN data.faceMetrics
    THEN (IF data.faceMetrics.trend = "improving" THEN 80
          ELSE IF data.faceMetrics.trend = "stable" THEN 50 ELSE 30)
    ELSE 50

\* 600 * (mean(face) * 0.40 + questionQuality * 0.30
\*        + mean(min(100, chars / 20), min(100, words / 2)) * 0.20
\*        + trendScore * 0.10 + 10)
FormulaTimes600(c) ==
    80 * (FaceInput(c.data, "avgCuriosity") + FaceInput(c.data, "avgAttention")
          + FaceInput(c.data, "avgVibe"))
    + 180 * c.question_quality
    + 3 * (IF c.chars < 2000 THEN c.chars ELSE 2000)
    + 30 * (IF c.words_count < 200 THEN c.words_count ELSE 200)
    + 60 * TrendInput(c.data)
    + 6000

\* C12: for face metrics and a question quality in 0..100, the score is
\* clamp(mean(face) * 0.40 + questionQuality * 0.30 + mean(min(100,
\* chars / 20), min(100, words / 2)) * 0.20 + trendScore * 0.10 + 10, 0, 100)
\* as a whole number (its fraction cut off), with absent face metrics taken
\* as 0 and an absent trend as stable; 80/80/80, quality 70, 2000
\* characters, 200 words, stable gives 88.
C12_ScoreIsTheFormula ==
    (/\ score_case.computed
     /\ \A k \in {"avgCuriosity", "avgAttention", "avgVibe"} :
            FaceInput(score_case.data, k) \in 0..100
     /\ score_case.question_quality \in 0..100)
    => LET f == FormulaTimes600(score_case)
           clamped == IF f < 0 THEN 0 ELSE IF f > 60000 THEN 60000 ELSE f
       IN /\ 600 * score_case.presentation_score <= clamped
          /\ clamped < 600 * (score_case.presentation_score + 1)
          /\ (/\ score_case.data
                     = [faceMetrics |-> [avgCuriosity |-> 80, avgAttention |-> 80,
                                         avgVibe |-> 80, trend |-> "stable"]]
               /\ score_case.question_quality = 70
               /\ score_case.chars = 2000
               /\ score_case.words_count = 200)
              => score_case.presentation_score = 88

\* C13: the presentation score of every report is within 0..100, whatever
\* the face metrics, the question quality, the length of the transcript and
\* the trend are.
C13_ScoreWithinRange ==
    score_case.computed => score_case.presentation_score \in 0..100

\* C13, its case: face metrics of 100, a quality of 100, a transcript of
\* 2000 characters and 200 words and an improving trend add up to 98, the
\* offset makes it 108, and the score is 100.
C13_Witness ==
    /\ score_case.computed
    /\ FormulaTimes600(score_case) = 108 * 600
    /\ \A k \in {"avgCuriosity", "avgAttention", "avgVibe"} :
           FaceInput(score_case.data, k) = 100
    /\ score_case.presentation_score = 100

(***************************************************************************)
(* The claims about concurrent requests on the chunk store, under          *)
(* SpecStore and SpecIngest.                                               *)
(***************************************************************************)
\* C14: whatever is interleaved with a gemini_feedback request, the
\* transcript and the segments it assembled stay as they were assembled
\* until they are reported, and its clear step removes only the collection
\* it assembled from (with what was appended to it since): it removes no
\* chunk of a collection that was created for the session id after the
\* assembly.
C14_FinalizeAtomicForIngest ==
    [][\A r \in DOMAIN freq :
          /\ (r \in DOMAIN freq' /\ freq[r].pc # "speaker")
             => /\ freq'[r].transcript = freq[r].transcript
                /\ freq'[r].all_segments = freq[r].all_segments
                /\ freq'[r].uids = freq[r].uids
          /\ (r \notin DOMAIN freq' /\ response'.status = 200)
             => /\ response'.body.transcript = freq[r].transcript
                /\ response'.body.segments = freq[r].all_segments
                /\ LET removed == Uids(Stored(freq[r].session_id))
                   IN removed = {} \/ freq[r].uids \subseteq removed]_vars

\* C15: with uploads only, once every transcribe_chunk request has returned,
\* the collections hold every chunk a request has answered 200 for, each
\* once, in the collection of its session.
C15_NoLostUpdate ==
    ireq = EmptyDict
    => /\ UNION {Uids(transcript_storage[s]) : s \in DOMAIN transcript_storage}
              = 0..(next_uid - 1)
       /\ \A s \in DOMAIN transcript_storage :
              Cardinality(Uids(transcript_storage[s])) = Len(transcript_storage[s])

(***************************************************************************)
(* More claims about the realtime control channel, under Spec.             *)
(***************************************************************************)
\* The emit of the presenter-offline error to connection c, and nothing else.
OnlyErrorTo(c, sent) ==
    /\ Cardinality(sent) = 1
    /\ \A e \in sent :
           /\ e.event = "error"
           /\ e.to = c
           /\ e.data = [message |-> "Session not found or presenter is offline"]

\* C16: when the connection bound as the presenter of s disconnects, s has
\* no binding afterwards and the disconnect emits nothing; a binding comes
\* back only by a presenter's join_session; and a toggle_recording for s
\* while s has no binding is answered with the presenter-offline error.
C16_PresenterLeavesSessionOffline ==
    [][\A c \in Sids, s \in SessionIds :
          /\ (/\ handle_disconnect(c)
              /\ s \in DOMAIN presenter_sessions
              /\ presenter_sessions[s] = c)
             => (s \notin DOMAIN presenter_sessions' /\ emitted' = {})
          /\ (s \notin DOMAIN presenter_sessions /\ s \in DOMAIN presenter_sessions')
             => handle_join(presenter_sessions'[s], s, "presenter")
          /\ (handle_toggle_recording(c, s) /\ s \notin DOMAIN presenter_sessions)
             => OnlyErrorTo(c, emitted')]_vars

\* C17: toggle_recording(s) while s has no binding emits one error event,
\* to the sender and to nobody else, and leaves the connection map, the
\* bindings, the rooms and the chunk store as they were.
C17_ToggleWithoutPresenterFails ==
    [][\A c \in Sids, s \in SessionIds :
          (handle_toggle_recording(c, s) /\ s \notin DOMAIN presenter_sessions)
          => /\ OnlyErrorTo(c, emitted')
             /\ connected' = connected
             /\ active_sessions' = active_sessions
             /\ presenter_sessions' = presenter_sessions
             /\ rooms' = rooms
             /\ transcript_storage' = transcript_storage]_vars

\* C17, its case: a connection sends toggle_recording for a session without
\* a binding while another connection presents another session, and the
\* sender alone gets the error.
C17_Witness ==
    /\ last.event = "toggle_recording"
    /\ last.sessionId \notin DOMAIN presenter_sessions
    /\ \E s \in DOMAIN presenter_sessions :
           /\ presenter_sessions[s] \in connected \ {last.sid}
           /\ presenter_sessions[s] \in rooms[s]
    /\ OnlyErrorTo(last.sid, emitted)

\* C18: toggle_recording(s) while s has a binding delivers one
\* toggle_recording_command to each member of room s but the sender and to
\* nobody else; the command carries the action only, no recording state,
\* and the handler changes nothing the server stores.
C18_ToggleReachesTheOthers ==
    [][\A c \in Sids, s \in SessionIds :
          (handle_toggle_recording(c, s) /\ s \in DOMAIN presenter_sessions)
          => /\ {e.to : e \in emitted'} = rooms[s] \ {c}
             /\ Cardinality(emitted') = Cardinality(rooms[s] \ {c})
             /\ \A e \in emitted' :
                    /\ e.event = "toggle_recording_command"
                    /\ DOMAIN e.data = {"action"}
             /\ connected' = connected
             /\ active_sessions' = active_sessions
             /\ presenter_sessions' = presenter_sessions
             /\ rooms' = rooms
             /\ transcript_storage' = transcript_storage]_vars

\* C18, its case: a controller in the room of a session sends
\* toggle_recording and the bound presenter gets the command.
C18_Witness ==
    /\ last.event = "toggle_recording"
    /\ last.sessionId \in DOMAIN presenter_sessions
    /\ last.sid \in rooms[last.sessionId]
    /\ presenter_sessions[last.sessionId] # last.sid
    /\ \E e \in ToggleCommands : e.to = presenter_sessions[last.sessionId]

\* C19: recording_state_update(s, b) from a member of room s delivers
\* recording_state_changed with isRecording = b to each other member of
\* room s, to nobody else and not to the sender, whoever the bound presenter
\* is, and changes neither the connection map, the bindings nor the rooms.
C19_StateUpdateReachesTheOthers ==
    [][\A c \in Sids, s \in SessionIds, b \in BOOLEAN :
          (handle_recording_state_update(c, s, b) /\ c \in rooms[s])
          => /\ {e.to : e \in emitted'} = rooms[s] \ {c}
             /\ Cardinality(emitted') = Cardinality(rooms[s] \ {c})
             /\ \A e \in emitted' :
                    /\ e.event = "recording_state_changed"
                    /\ e.data = [isRecording |-> b]
             /\ connected' = connected
             /\ active_sessions' = active_sessions
             /\ presenter_sessions' = presenter_sessions
             /\ rooms' = rooms]_vars

\* C19, its case: a member of the room that is not the bound presenter
\* reports that the recording is off, and the bound presenter is told so.
C19_Witness ==
    /\ last.event = "recording_state_update"
    /\ last.sid \in rooms[last.sessionId]
    /\ last.sessionId \in DOMAIN presenter_sessions
    /\ presenter_sessions[last.sessionId] # last.sid
    /\ \E e \in StateChanges :
           e.to = presenter_sessions[last.sessionId] /\ ~e.data.isRecording

\* C20: a toggle_recording_command or recording_state_changed for session
\* s is delivered only to live connections whose record in the connection
\* map has sessionId = s.
C20_BroadcastScopedToSession ==
    last.event \in {"toggle_recording", "recording_state_update"}
    => \A e \in ToggleCommands \cup StateChanges :
           /\ e.to \in connected
           /\ e.to \in DOMAIN active_sessions
           /\ active_sessions[e.to].sessionId = last.sessionId


(***************************************************************************)
(* The claims about requests as they arrive, under SpecRequests.           *)
(***************************************************************************)
\* The chunks of every session, as the set of their uids.
StoredUids(storage) == UNION {Uids(storage[s]) : s \in DOMAIN storage}

\* C21: a transcribe_chunk request that is invalid (no audio, empty
\* filename, or no session id) is rejected and leaves the chunk store as it
\* was, a request whose conversion fails stores nothing, and a chunk is
\* added only by a request that answers success.  A request without a
\* session id is the one whose session is DefaultSessionId: it is never
\* taken into processing, its session never gets a list, and what it is
\* answered is a rejection.
C21_InvalidIngestRejected ==
    [][ /\ \A r \in DOMAIN ireq' : ireq'[r].session_id # DefaultSessionId
        /\ DefaultSessionId \notin DOMAIN transcript_storage'
        /\ (response'.handler = "transcribe_chunk" /\ response'.session_id = DefaultSessionId
              => response'.status = 400)
        /\ (response'.handler = "transcribe_chunk" /\ response'.status # 200
              => transcript_storage' = transcript_storage)
        /\ (StoredUids(transcript_storage') \ StoredUids(transcript_storage) # {}
              => /\ response'.handler = "transcribe_chunk"
                 /\ response'.status = 200
                 /\ response'.body.success
                 /\ StoredUids(transcript_storage') \ StoredUids(transcript_storage) =
                        response'.body.uids)
      ]_vars


(***************************************************************************)
(* The claims about what a step leaves alone.                              *)
(***************************************************************************)
\* Every session id a request or an event of the model can refer to.
AllSessionIds == SessionIds \cup {DefaultSessionId}

\* What the program holds for session s: its chunk collection, its
\* PresenterBinding and the members of its room.
Collection(storage, s) ==
    IF s \in DOMAIN storage THEN <<"list", storage[s]>> ELSE <<"none", <<>>>>
Binding(sessions, s) == IF s \in DOMAIN sessions THEN {sessions[s]} ELSE {}
Members(rs, s) == IF s \in DOMAIN rs THEN rs[s] ELSE {}

\* The requests in flight that the step created, moved on or ended.
Moved(before, after) ==
    {r \in DOMAIN before \cup DOMAIN after :
        \/ r \notin DOMAIN before
        \/ r \notin DOMAIN after
        \/ before[r] # after[r]}
RequestSessions(before, after) ==
    {before[r].session_id : r \in Moved(before, after) \cap DOMAIN before}
      \cup {after[r].session_id : r \in Moved(before, after) \cap DOMAIN after}

\* C22: a step of an ingest, a finalize, a join, a toggle, a state update
\* or a disconnect that refers to session A leaves the chunk collection,
\* the PresenterBinding and the room membership of every other session B
\* as they were.  The session an event refers to is the one it names (for a
\* disconnect, the one recorded for the connection); the session a step
\* of a request refers to is the session of that request.
C22_CrossSessionIsolation ==
    [][\A B \in AllSessionIds :
          LET referred ==
                  (IF ctlvars' # ctlvars THEN {last'.sessionId} ELSE {})
                    \cup (IF storevars' # storevars
                          THEN RequestSessions(ireq, ireq')
                                 \cup RequestSessions(freq, freq')
                                 \cup {response'.session_id}
                          ELSE {})
          IN B \notin referred
               => /\ Collection(transcript_storage', B) = Collection(transcript_storage, B)
                  /\ Binding(presenter_sessions', B) = Binding(presenter_sessions, B)
                  /\ Members(rooms', B) = Members(rooms, B)
      ]_vars


\* C23: the control channel and the chunk store are independent: a realtime
\* event (connect, join_session, toggle_recording, recording_state_update,
\* disconnect, the bound presenter's included) changes no session's stored
\* chunks, and a step of an ingest or of a finalize changes neither
\* active_sessions nor presenter_sessions.
C23_ControlAndStoreIndependent ==
    [][ /\ (ctlvars' # ctlvars => transcript_storage' = transcript_storage)
        /\ (storevars' # storevars
              => /\ active_sessions' = active_sessions
                 /\ presenter_sessions' = presenter_sessions)
      ]_vars

\* The presenter of a session has left, which closed the session to control
\* traffic, and the session's collection holds the chunk whose upload was
\* the last request answered.
C23_Witness ==
    /\ last.event = "disconnect"
    /\ last.sessionId = SystemSession
    /\ SystemSession \notin DOMAIN presenter_sessions
    /\ SystemSession \in DOMAIN transcript_storage
    /\ Len(transcript_storage[SystemSession]) > 0
    /\ response.handler = "transcribe_chunk"
    /\ response.status = 200
    /\ ireq = EmptyDict
    /\ freq = EmptyDict

\* C25: in every reachable state each PresenterBinding s -> c refers to a
\* connection c that is connected and whose record in active_sessions says
\* sessionId = s and type = presenter, whatever joins and disconnects came
\* before (a connection that joins again with another session id or
\* another role included).
C25_BindingsReferToLivePresenters ==
    \A s \in DOMAIN presenter_sessions :
        LET c == presenter_sessions[s]
        IN /\ c \in connected
           /\ c \in DOMAIN active_sessions
           /\ active_sessions[c].sessionId = s
           /\ active_sessions[c].type = "presenter"

(***************************************************************************)
(* The claims about overlapping and failing finalize requests, under       *)
(* SpecStore.                                                              *)
(***************************************************************************)
\* The external analysis calls of one gemini_feedback request (lines 211,
\* 246 and 344).
AnalysisCalls == 3

\* The answer of a finalize that made every call and then found no
\* collection to delete: the KeyError of line 361, turned into a 500 by
\* line 376.
CollectionGone(resp) ==
    /\ resp.handler = "gemini_feedback"
    /\ resp.status = 500
    /\ resp.body.calls = AnalysisCalls

\* C24: a session's collection is read and deleted exactly once, however
\* finalize requests on the same session id overlap: the chunks a request
\* reports were reported by no request before it, the request that reports
\* is the one that deletes the collection, and no request ends in an
\* internal error because the collection is gone already.
C24_ReadAndDeletedOnce ==
    [][\A r \in DOMAIN freq \ DOMAIN freq' :
          /\ ~CollectionGone(response')
          /\ response'.status = 200
               => /\ response'.body.uids \cap stale = {}
                  /\ freq[r].session_id \in DOMAIN transcript_storage
                  /\ freq[r].session_id \notin DOMAIN transcript_storage'
      ]_vars

\* The chunks of a collection that a request assembled, in the collection's
\* order.
AssembledOf(chunks, uids) == SelectSeq(chunks, LAMBDA c : c.uid \in uids)

\* C26: a finalize that fails after assembly (it answers an error, not a
\* report) does not clear the session: its step leaves transcript_storage
\* as it was, and the session's collection still holds the chunks the
\* request assembled, with the text and the segment offsets they had, so
\* that a later finalize assembles the same transcript and the same
\* segments from them.
C26_FailedFinalizeKeepsChunks ==
    [][\A r \in DOMAIN freq \ DOMAIN freq' :
          response'.status # 200
            => /\ transcript_storage' = transcript_storage
               /\ freq[r].session_id \in DOMAIN transcript_storage'
               /\ LET kept == AssembledOf(transcript_storage'[freq[r].session_id],
                                          freq[r].uids)
                  IN /\ Uids(kept) = freq[r].uids
                     /\ JoinTexts(SortByChunkIndex(kept)) = freq[r].transcript
                     /\ AllSegments(SortByChunkIndex(kept)) = freq[r].all_segments
      ]_vars

====
